---- MODULE Spec2Model ----
(***************************************************************************)
(* Model of metrics.py: the pull-request metrics pipeline                  *)
(*   load_team_mapping -> github_api_request (paginated list) ->           *)
(*   time-window filter -> per-PR extraction (one detail request each) ->  *)
(*   groupby/agg -> sort_values -> to_csv.                                 *)
(*                                                                         *)
(* Time is counted in whole hours since 2025-06-01T00:00:00 UTC.  An ISO   *)
(* timestamp string is a record [local, tz]: the wall-clock reading and    *)
(* the notation of its offset ("Z", "+01:00", "naive" for none, "absent"   *)
(* for a missing/None value).  Floating-point columns are kept exact:      *)
(* merge_rate_% as the fraction num/den, avg_cycle_time_days in hundredths.*)
(***************************************************************************)
EXTENDS Integers, Sequences, FiniteSets, TLC

VARIABLES pc, start_date, end_date, team_file, team_map, page, all_data,
          data, requests, failed_page, prs, metrics_data, unassigned_users,
          detail_failed, grouped, team_stats, output_files

vars == <<pc, start_date, end_date, team_file, team_map, page, all_data,
          data, requests, failed_page, prs, metrics_data, unassigned_users,
          detail_failed, grouped, team_stats, output_files>>

----------------------------------------------------------------------------
(* Bounds and input sets *)

\* The list endpoint serves at most MaxItems items over one run.
MaxItems == 3

TS(local, tz) == [local |-> local, tz |-> tz]
NoTS == TS(0, "absent")

\* Pull-request summaries the list endpoint can serve.  Each carries its two
\* timestamps in one notation, as the API does.  PR 1..3 are the scenario of
\* the specification (alice/core merged after 48 h, bob/core unmerged, carol
\* unmapped merged the same day); PR 4 has no created_at; PR 5 is a second
\* pull request of carol.
PullRequests ==
  { [number |-> 1, login |-> "alice", state |-> "closed",
     created_at |-> TS(0, "Z"), merged_at |-> TS(48, "Z")],
    [number |-> 2, login |-> "bob", state |-> "open",
     created_at |-> TS(24, "naive"), merged_at |-> NoTS],
    [number |-> 3, login |-> "carol", state |-> "closed",
     created_at |-> TS(697, "+01:00"), merged_at |-> TS(700, "+01:00")],
    [number |-> 4, login |-> "bob", state |-> "open",
     created_at |-> NoTS, merged_at |-> NoTS],
    [number |-> 5, login |-> "carol", state |-> "closed",
     created_at |-> TS(25, "+01:00"), merged_at |-> NoTS] }

\* additions / deletions of the detail record of each pull request.
Additions(n) == CASE n = 1 -> 10 [] n = 3 -> 5 [] n = 5 -> 7 [] OTHER -> 0
Deletions(n) == CASE n = 1 -> 2 [] n = 3 -> 1 [] n = 5 -> 4 [] OTHER -> 0

\* --start-date / --end-date arguments.
Windows ==
  { [start |-> TS(0, "naive"), end |-> TS(696, "naive")],
    [start |-> TS(25, "+01:00"), end |-> TS(695, "naive")] }

\* teams.json: absent, or a JSON array of {github_user, team} objects.
Entry(u, t) == [github_user |-> u, team |-> t]
TeamFiles ==
  { [found |-> FALSE, entries |-> <<>>],
    [found |-> TRUE, entries |-> <<Entry("alice", "core"), Entry("bob", "core")>>],
    [found |-> TRUE, entries |-> <<Entry("alice", "web"), Entry("bob", "Unassigned"),
                                   Entry("alice", "core"), Entry("carol", "web")>>] }

\* Team names in the order groupby's sorted keys put them (byte order).
TeamOrder == <<"Unassigned", "core", "web">>

NoFile == [found |-> FALSE, entries |-> <<>>]

----------------------------------------------------------------------------
(* Pure helpers *)

\* Offset, in hours, that fromisoformat reads from the notation.
UtcOffset(tz) == IF tz = "+01:00" THEN 1 ELSE 0

\* to_utc: fromisoformat, a naive value is stamped UTC; the instant.
to_utc(ts) == ts.local - UtcOffset(ts.tz)

\* Mutant: the offset of created_at is dropped instead of applied.
CreatedInstantLocal(ts) == ts.local

\* created_at.replace('Z', '+00:00') -> fromisoformat -> naive stamped UTC.
CreatedInstant(ts) == ts.local - UtcOffset(ts.tz)

InWindow(pr, s, e) ==
  /\ pr.created_at.tz # "absent"
  /\ to_utc(s) <= CreatedInstant(pr.created_at)
  /\ CreatedInstant(pr.created_at) <= to_utc(e)

RECURSIVE FilterPrs(_, _, _)
FilterPrs(seq, s, e) ==
  IF seq = <<>> THEN <<>>
  ELSE IF InWindow(Head(seq), s, e)
       THEN <<Head(seq)>> \o FilterPrs(Tail(seq), s, e)
       ELSE FilterPrs(Tail(seq), s, e)

\* The dict comprehension of load_team_mapping: a later entry of the same
\* user overwrites an earlier one.
RECURSIVE BuildMapping(_)
BuildMapping(entries) ==
  IF entries = <<>> THEN <<>>
  ELSE LET rest == BuildMapping(SubSeq(entries, 1, Len(entries) - 1))
           last == entries[Len(entries)]
       IN  SelectSeq(rest, LAMBDA x : x.github_user # last.github_user)
             \o <<last>>

load_team_mapping(file) == IF file.found THEN BuildMapping(file.entries) ELSE <<>>

HasEntry(map, author) == \E i \in 1..Len(map) : map[i].github_user = author

\* Mutant: team_map.get(author) without the default.
TeamOfNoDefault(map, author) ==
  IF HasEntry(map, author)
  THEN (CHOOSE x \in {map[i] : i \in 1..Len(map)} : x.github_user = author).team
  ELSE "None"

\* team_map.get(author, 'Unassigned')
TeamOf(map, author) ==
  IF HasEntry(map, author)
  THEN (CHOOSE x \in {map[i] : i \in 1..Len(map)} : x.github_user = author).team
  ELSE "Unassigned"

calculate_time_difference(s, e) ==
  IF s.tz = "absent" \/ e.tz = "absent" THEN 0
  ELSE (e.local - UtcOffset(e.tz)) - (s.local - UtcOffset(s.tz))

\* github_api_request(url, single_object=True): the parsed detail object, or
\* {} when the request raised a RequestException.
github_api_request_single(n, ok) ==
  IF ok THEN [present |-> TRUE, additions |-> Additions(n), deletions |-> Deletions(n)]
  ELSE [present |-> FALSE, additions |-> 0, deletions |-> 0]

\* pr_details.get(key, 0)
DetailGet(details, value) == IF details.present THEN value ELSE 0

\* Mutant: every author is recorded, whatever the team.
AddUnassignedAlways(users, team_name, author) == users \cup {author}

\* if team_name == 'Unassigned': unassigned_users.add(author)
AddUnassigned(users, team_name, author) ==
  IF team_name = "Unassigned" THEN users \cup {author} ELSE users

\* Mutant: the merge fields are read from the detail object.
PrMetricsMergedFromDetail(pr, map, details) ==
  LET merged == details.present /\ pr.merged_at.tz # "absent"
  IN  [team |-> TeamOf(map, pr.login),
       pr_id |-> pr.number,
       author |-> pr.login,
       state |-> pr.state,
       merged |-> merged,
       time_to_merge_hours |->
         IF merged THEN calculate_time_difference(pr.created_at, pr.merged_at)
         ELSE 0,
       lines_added |-> DetailGet(details, details.additions),
       lines_deleted |-> DetailGet(details, details.deletions)]

\* The pr_metrics dict of one loop iteration.
PrMetrics(pr, map, details) ==
  LET merged == pr.merged_at.tz # "absent"
  IN  [team |-> TeamOf(map, pr.login),
       pr_id |-> pr.number,
       author |-> pr.login,
       state |-> pr.state,
       merged |-> merged,
       time_to_merge_hours |->
         IF merged THEN calculate_time_difference(pr.created_at, pr.merged_at)
         ELSE 0,
       lines_added |-> DetailGet(details, details.additions),
       lines_deleted |-> DetailGet(details, details.deletions)]

RECURSIVE SumHours(_)
SumHours(recs) ==
  IF recs = <<>> THEN 0
  ELSE Head(recs).time_to_merge_hours + SumHours(Tail(recs))

RECURSIVE SumAdded(_)
SumAdded(recs) ==
  IF recs = <<>> THEN 0 ELSE Head(recs).lines_added + SumAdded(Tail(recs))

RECURSIVE SumDeleted(_)
SumDeleted(recs) ==
  IF recs = <<>> THEN 0 ELSE Head(recs).lines_deleted + SumDeleted(Tail(recs))

\* Mutant: a closed pull request is counted as merged.
SumMergedByState(recs) == Len(SelectSeq(recs, LAMBDA r : r.state = "closed"))

\* ('merged', 'sum'): the number of True values.
SumMerged(recs) == Len(SelectSeq(recs, LAMBDA r : r.merged))

\* round(n/d, 0) the way numpy rounds: to nearest, a tie to the even neighbour.
RoundHalfEven(n, d) ==
  LET q == n \div d
      r == n % d
  IN  IF 2 * r < d THEN q
      ELSE IF 2 * r > d THEN q + 1
      ELSE IF q % 2 = 0 THEN q ELSE q + 1

\* Mutant: the mean is taken over the merged records only.
AvgCycleTimeDaysMergedOnly(recs) ==
  IF SumMerged(recs) = 0 THEN 0
  ELSE RoundHalfEven(100 * SumHours(recs), 24 * SumMerged(recs))

\* ('time_to_merge_hours', 'mean') / 24, .round(2): in hundredths of a day.
AvgCycleTimeDays(recs) == RoundHalfEven(100 * SumHours(recs), 24 * Len(recs))

\* (merged_prs / total_prs) * 100 as an exact fraction.
MergeRate(merged_prs, total_prs) == [num |-> merged_prs * 100, den |-> total_prs]

\* One row of df.groupby('team').agg(...), with the two derived columns.
TeamRow(t, recs) ==
  [team |-> t,
   total_prs |-> Len(recs),
   merged_prs |-> SumMerged(recs),
   total_additions |-> SumAdded(recs),
   total_deletions |-> SumDeleted(recs),
   merge_rate |-> MergeRate(SumMerged(recs), Len(recs)),
   avg_cycle_time_days |-> AvgCycleTimeDays(recs)]

RecordsOf(records, t) == SelectSeq(records, LAMBDA r : r.team = t)

\* groupby('team'): one row per team that has a record, keys sorted.
RECURSIVE GroupByTeam(_, _)
GroupByTeam(records, teams) ==
  IF teams = <<>> THEN <<>>
  ELSE LET recs == RecordsOf(records, Head(teams))
       IN  (IF recs = <<>> THEN <<>> ELSE <<TeamRow(Head(teams), recs)>>)
             \o GroupByTeam(records, Tail(teams))

\* a.merge_rate >= b.merge_rate
RateGeq(a, b) == a.merge_rate.num * b.merge_rate.den >= b.merge_rate.num * a.merge_rate.den

IsPermutation(f, n) == /\ DOMAIN f = 1..n
                       /\ \A i, j \in 1..n : f[i] = f[j] => i = j

\* Mutant: ascending=False is missing.
SortValuesAscending(rows) ==
  LET n == Len(rows)
  IN  { [i \in 1..n |-> rows[f[i]]] :
          f \in { g \in [1..n -> 1..n] :
                    /\ IsPermutation(g, n)
                    /\ \A i \in 1..(n - 1) : RateGeq(rows[g[i + 1]], rows[g[i]]) } }

\* sort_values(by='merge_rate_%', ascending=False) with the default
\* kind='quicksort', which is not a stable sort: every arrangement of the rows
\* that is descending in merge_rate_% is an outcome.
SortValues(rows) ==
  LET n == Len(rows)
  IN  { [i \in 1..n |-> rows[f[i]]] :
          f \in { g \in [1..n -> 1..n] :
                    /\ IsPermutation(g, n)
                    /\ \A i \in 1..(n - 1) : RateGeq(rows[g[i]], rows[g[i + 1]]) } }

\* f"{output_dir}/monthly_team_metrics_{start_date}_to_{end_date}.csv"
OutputFilename(s, e) == [dir |-> "output", start |-> s, end |-> e]

\* Non-empty pages of at most n items; one response never lists a pull
\* request twice, but nothing relates the items of two responses.
RECURSIVE PagesUpTo(_)
PagesUpTo(n) ==
  IF n = 0 THEN {}
  ELSE LET shorter == PagesUpTo(n - 1)
       IN  shorter \cup { <<p>> : p \in PullRequests }
             \cup UNION { { Append(s, p) :
                              p \in { q \in PullRequests :
                                        \A i \in 1..Len(s) : s[i] # q } } :
                          s \in shorter }

ListRequest(p) == [kind |-> "list", arg |-> p]
DetailRequest(n) == [kind |-> "detail", arg |-> n]

----------------------------------------------------------------------------
Init ==
  /\ pc = "start"
  /\ \E w \in Windows : start_date = w.start /\ end_date = w.end
  /\ team_file = NoFile
  /\ team_map = <<>>
  /\ page = 1
  /\ all_data = <<>>
  /\ data = <<>>
  /\ requests = <<>>
  /\ failed_page = 0
  /\ prs = <<>>
  /\ metrics_data = <<>>
  /\ unassigned_users = {}
  /\ detail_failed = {}
  /\ grouped = <<>>
  /\ team_stats = <<>>
  /\ output_files = {}

LoadTeamMapping ==
  /\ pc = "start"
  /\ \E f \in TeamFiles :
       /\ team_file' = f
       /\ team_map' = load_team_mapping(f)
  /\ pc' = "list"
  /\ UNCHANGED <<start_date, end_date, page, all_data, data, requests,
                 failed_page, prs, metrics_data, unassigned_users,
                 detail_failed, grouped, team_stats, output_files>>

\* One iteration of the pagination loop whose response has items.
ListPageOk ==
  /\ pc = "list"
  /\ \E items \in PagesUpTo(MaxItems - Len(all_data)), has_next \in BOOLEAN :
       /\ requests' = Append(requests, ListRequest(page))
       /\ data' = items
       /\ all_data' = all_data \o items
       /\ IF has_next
          THEN page' = page + 1 /\ pc' = "list"
          ELSE page' = page /\ pc' = "filter"
  /\ UNCHANGED <<start_date, end_date, team_file, team_map, failed_page, prs,
                 metrics_data, unassigned_users, detail_failed, grouped,
                 team_stats, output_files>>

\* The response is an empty array: break.
ListPageEmpty ==
  /\ pc = "list"
  /\ requests' = Append(requests, ListRequest(page))
  /\ data' = <<>>
  /\ pc' = "filter"
  /\ UNCHANGED <<start_date, end_date, team_file, team_map, page, all_data,
                 failed_page, prs, metrics_data, unassigned_users,
                 detail_failed, grouped, team_stats, output_files>>

\* Mutant: the failed page is requested again instead of ending the loop.
ListPageErrorRetry ==
  /\ pc = "list"
  /\ Len(requests) < MaxItems + 2
  /\ requests' = Append(requests, ListRequest(page))
  /\ failed_page' = page
  /\ pc' = "list"
  /\ UNCHANGED <<start_date, end_date, team_file, team_map, page, all_data,
                 data, prs, metrics_data, unassigned_users, detail_failed,
                 grouped, team_stats, output_files>>

\* requests.get or raise_for_status raised: print and break.
ListPageError ==
  /\ pc = "list"
  /\ requests' = Append(requests, ListRequest(page))
  /\ failed_page' = page
  /\ pc' = "filter"
  /\ UNCHANGED <<start_date, end_date, team_file, team_map, page, all_data,
                 data, prs, metrics_data, unassigned_users, detail_failed,
                 grouped, team_stats, output_files>>

FilterWindow ==
  /\ pc = "filter"
  /\ prs' = FilterPrs(all_data, start_date, end_date)
  /\ pc' = "extract"
  /\ UNCHANGED <<start_date, end_date, team_file, team_map, page, all_data,
                 data, requests, failed_page, metrics_data,
                 unassigned_users, detail_failed, grouped, team_stats,
                 output_files>>

\* One iteration of "for pr in prs".
Extract ==
  /\ pc = "extract"
  /\ Len(metrics_data) < Len(prs)
  /\ LET i == Len(metrics_data) + 1
         pr == prs[i]
     IN  \E ok \in BOOLEAN :
           /\ unassigned_users' =
                AddUnassigned(unassigned_users, TeamOf(team_map, pr.login), pr.login)
           /\ requests' = Append(requests, DetailRequest(pr.number))
           /\ detail_failed' = IF ok THEN detail_failed ELSE detail_failed \cup {i}
           /\ metrics_data' =
                Append(metrics_data,
                       PrMetrics(pr, team_map, github_api_request_single(pr.number, ok)))
  /\ UNCHANGED <<pc, start_date, end_date, team_file, team_map, page, all_data,
                 data, failed_page, prs, grouped, team_stats, output_files>>

\* "No metrics data to process.": return before anything is written.
NoMetricsData ==
  /\ pc = "extract"
  /\ Len(metrics_data) = Len(prs)
  /\ metrics_data = <<>>
  /\ pc' = "done"
  /\ UNCHANGED <<start_date, end_date, team_file, team_map, page, all_data,
                 data, requests, failed_page, prs, metrics_data,
                 unassigned_users, detail_failed, grouped, team_stats,
                 output_files>>

\* Mutant: the early return on empty metrics_data is missing.
WriteReportNoEarlyReturn ==
  /\ pc = "extract"
  /\ Len(metrics_data) = Len(prs)
  /\ grouped' = GroupByTeam(metrics_data, TeamOrder)
  /\ team_stats' \in SortValues(grouped')
  /\ output_files' = output_files \cup {OutputFilename(start_date, end_date)}
  /\ pc' = "done"
  /\ UNCHANGED <<start_date, end_date, team_file, team_map, page, all_data,
                 data, requests, failed_page, prs, metrics_data,
                 unassigned_users, detail_failed>>

\* groupby/agg, derived columns, sort_values, makedirs, to_csv.
WriteReport ==
  /\ pc = "extract"
  /\ Len(metrics_data) = Len(prs)
  /\ metrics_data # <<>>
  /\ grouped' = GroupByTeam(metrics_data, TeamOrder)
  /\ team_stats' \in SortValues(grouped')
  /\ output_files' = output_files \cup {OutputFilename(start_date, end_date)}
  /\ pc' = "done"
  /\ UNCHANGED <<start_date, end_date, team_file, team_map, page, all_data,
                 data, requests, failed_page, prs, metrics_data,
                 unassigned_users, detail_failed>>

Next ==
  \/ LoadTeamMapping
  \/ ListPageOk
  \/ ListPageEmpty
  \/ ListPageError
  \/ FilterWindow
  \/ Extract
  \/ NoMetricsData
  \/ WriteReport

Spec == Init /\ [][Next]_vars

----------------------------------------------------------------------------
(* Properties *)

\* What the properties read off a pull request, stated without the model's
\* helpers.
OffsetHours(ts) == IF ts.tz = "+01:00" THEN 1 ELSE 0
UtcHour(ts) == ts.local - OffsetHours(ts)
Present(ts) == ts.tz # "absent"
CreatedWithin(pr) ==
  /\ Present(pr.created_at)
  /\ UtcHour(start_date) <= UtcHour(pr.created_at)
  /\ UtcHour(pr.created_at) <= UtcHour(end_date)
Filtered == pc \in {"extract", "done"}
KeptIdx == { j \in 1..Len(all_data) : CreatedWithin(all_data[j]) }
NthKept(i) == CHOOSE j \in KeptIdx : Cardinality({ k \in KeptIdx : k <= j }) = i
DirectoryTeams(u) ==
  { team_file.entries[i].team :
      i \in { k \in 1..Len(team_file.entries) :
                /\ team_file.entries[k].github_user = u
                /\ \A m \in (k + 1)..Len(team_file.entries) :
                     team_file.entries[m].github_user # u } }
InDirectory(u) == team_file.found /\ DirectoryTeams(u) # {}
ResolvedTeam(u) ==
  IF InDirectory(u) THEN CHOOSE t \in DirectoryTeams(u) : TRUE ELSE "Unassigned"
PrsOfTeam(t) == { i \in 1..Len(prs) : ResolvedTeam(prs[i].login) = t }
ReportWritten == output_files # {}

JustFiltered == pc = "extract" /\ metrics_data = <<>>

\* C1: the output of the filter, prs, is the subsequence of the listed pull
\* requests with start <= created_at <= end (both ends included, instants
\* compared in UTC, a naive stamp read as UTC); a pull request without
\* created_at is dropped; the kept ones stay in their listed order.
C1_FilterKeepsExactlyWindow ==
  JustFiltered =>
    /\ Len(prs) = Cardinality(KeptIdx)
    /\ \A i \in 1..Len(prs) : prs[i] = all_data[NthKept(i)]

C1_Witness ==
  /\ JustFiltered
  /\ Len(prs) = 2
  /\ Len(all_data) = 3
  /\ ~Present(all_data[2].created_at)
  /\ prs[1].created_at.tz = "+01:00"
  /\ prs[1].created_at.local > end_date.local
  /\ prs[2].created_at.tz = "naive"

\* C2: with no pull request in the window nothing is written and no detail
\* request is made; the run takes the early return and ends.
C2_EmptyWindowWritesNothing ==
  (Filtered /\ prs = <<>>) =>
    /\ output_files = {}
    /\ team_stats = <<>>
    /\ \A i \in 1..Len(requests) : requests[i].kind = "list"
    /\ pc = "extract" => (ENABLED NoMetricsData /\ ~ENABLED WriteReport)

C2_Witness ==
  /\ pc = "done"
  /\ prs = <<>>
  /\ all_data # <<>>
  /\ team_file.found
  /\ output_files = {}

\* C3 as stated: with the team file missing, every run ends with a report.
C3_Original ==
  (pc = "done" /\ ~team_file.found) =>
    /\ \A i \in 1..Len(metrics_data) : metrics_data[i].team = "Unassigned"
    /\ ReportWritten

\* C3 amended: with the team file missing the mapping is empty, every
\* in-window pull request is attributed to "Unassigned", and the run ends;
\* it ends with a report (one row, team "Unassigned", counting every
\* in-window pull request) when at least one pull request is in the window,
\* and without one otherwise.
C3_MissingFileAllUnassigned ==
  (pc # "start" /\ ~team_file.found) =>
    /\ team_map = <<>>
    /\ \A i \in 1..Len(metrics_data) : metrics_data[i].team = "Unassigned"
    /\ (pc = "extract" /\ Len(metrics_data) = Len(prs)) =>
         ENABLED (NoMetricsData \/ WriteReport)
    /\ pc = "done" =>
         /\ ReportWritten <=> prs # <<>>
         /\ prs # <<>> =>
              /\ Len(team_stats) = 1
              /\ team_stats[1].team = "Unassigned"
              /\ team_stats[1].total_prs = Len(prs)

C3_Witness ==
  /\ pc = "done"
  /\ ~team_file.found
  /\ Len(prs) >= 2
  /\ ReportWritten
  /\ team_stats[1].team = "Unassigned"

\* C4 as stated: the diagnostic set is exactly the authors of in-window pull
\* requests that have no directory entry.
C4_Original ==
  pc = "done" =>
    unassigned_users = { prs[i].login : i \in { k \in 1..Len(prs) : ~InDirectory(prs[k].login) } }

\* C4 amended: a contributor absent from the directory gets the team
\* "Unassigned" on every one of their records and is in the diagnostic set
\* (a set: once, however many pull requests); the set holds exactly the
\* authors of in-window pull requests whose resolved team is "Unassigned",
\* which includes an author the directory itself maps to "Unassigned".
C4_UnassignedDiagnostic ==
  /\ \A i \in 1..Len(metrics_data) :
       ~InDirectory(metrics_data[i].author) => metrics_data[i].team = "Unassigned"
  /\ pc = "done" =>
       /\ unassigned_users = { prs[i].login : i \in PrsOfTeam("Unassigned") }
       /\ \A i \in 1..Len(prs) :
            ~InDirectory(prs[i].login) => prs[i].login \in unassigned_users

C4_Witness ==
  /\ pc = "done"
  /\ team_file.found
  /\ unassigned_users = {"carol"}
  /\ Cardinality({ i \in 1..Len(prs) : prs[i].login = "carol" }) >= 2
  /\ \E i \in 1..Len(prs) : InDirectory(prs[i].login)

\* C5: in the report every team row has total_prs = the number of the team's
\* in-window list entries (> 0), merged_prs = the number of them with
\* merged_at present, merge_rate_percent = 100 * merged_prs / total_prs,
\* 0 <= merged_prs <= total_prs and 0 <= merge_rate_percent <= 100.
C5_MergeRate ==
  (pc = "done" /\ ReportWritten) =>
    \A r \in 1..Len(team_stats) :
      LET row == team_stats[r]
          mine == PrsOfTeam(row.team)
          merged == { i \in mine : Present(prs[i].merged_at) }
      IN  /\ row.total_prs = Cardinality(mine)
          /\ row.total_prs > 0
          /\ row.merged_prs = Cardinality(merged)
          /\ 0 <= row.merged_prs /\ row.merged_prs <= row.total_prs
          /\ row.merge_rate.den > 0
          /\ row.merge_rate.num * row.total_prs = 100 * row.merged_prs * row.merge_rate.den
          /\ 0 <= row.merge_rate.num
          /\ row.merge_rate.num <= 100 * row.merge_rate.den

C5_Witness ==
  /\ pc = "done"
  /\ ReportWritten
  /\ \E r \in 1..Len(team_stats) :
       /\ team_stats[r].total_prs = 3
       /\ team_stats[r].merged_prs = 1
  /\ \E i \in 1..Len(prs) : prs[i].state = "closed" /\ ~Present(prs[i].merged_at)

RateOf(row) == row.merge_rate
RateGreater(a, b) == RateOf(a).num * RateOf(b).den > RateOf(b).num * RateOf(a).den
RateEqual(a, b) == RateOf(a).num * RateOf(b).den = RateOf(b).num * RateOf(a).den
GroupPos(row) == CHOOSE k \in 1..Len(grouped) : grouped[k].team = row.team

\* C6 as stated: the report is sorted by merge_rate_percent descending and
\* rows of equal rate keep the order of the grouping step.
C6_Original ==
  (pc = "done" /\ ReportWritten) =>
    \A i, j \in 1..Len(team_stats) :
      i < j =>
        \/ RateGreater(team_stats[i], team_stats[j])
        \/ /\ RateEqual(team_stats[i], team_stats[j])
           /\ GroupPos(team_stats[i]) < GroupPos(team_stats[j])

\* C6 amended: the report holds each row of the grouping step exactly once,
\* sorted by merge_rate_percent descending; the relative order of rows of
\* equal rate is not fixed (the sort is the default, unstable one).
C6_SortedDescending ==
  (pc = "done" /\ ReportWritten) =>
    /\ Len(team_stats) = Len(grouped)
    /\ \A k \in 1..Len(grouped) : \E i \in 1..Len(team_stats) : team_stats[i] = grouped[k]
    /\ \A i, j \in 1..Len(team_stats) :
         i < j => ~RateGreater(team_stats[j], team_stats[i])

C6_Witness ==
  /\ pc = "done"
  /\ ReportWritten
  /\ Len(team_stats) = 3
  /\ team_stats # grouped
  /\ RateEqual(team_stats[1], team_stats[2])
  /\ GroupPos(team_stats[1]) > GroupPos(team_stats[2])
  /\ RateGreater(team_stats[2], team_stats[3])

HoursOf(pr) ==
  IF Present(pr.merged_at) /\ Present(pr.created_at)
  THEN UtcHour(pr.merged_at) - UtcHour(pr.created_at)
  ELSE 0

RECURSIVE TotalHours(_)
TotalHours(idx) ==
  IF idx = {} THEN 0
  ELSE LET i == CHOOSE k \in idx : TRUE
       IN  HoursOf(prs[i]) + TotalHours(idx \ {i})

Abs(x) == IF x < 0 THEN -x ELSE x

\* c hundredths is n/d rounded to the nearest hundredth, a tie to the even one.
IsRounded(c, n, d) ==
  /\ 2 * Abs(n - c * d) <= d
  /\ 2 * Abs(n - c * d) = d => c % 2 = 0

ScenarioCore(mine) ==
  /\ Cardinality(mine) = 2
  /\ { prs[i].number : i \in mine } = {1, 2}
  /\ mine \cap detail_failed = {}

\* C7: in every team row avg_cycle_time_days is the mean of
\* time_to_merge_hours over all of the team's records (an unmerged record
\* counts as 0 hours and is in the denominator), divided by 24 and rounded
\* to 2 places; for the scenario (core = PR 1 merged after 48 h and PR 2
\* unmerged) the row is 2, 1, 10, 2, 50.0, 1.0.
C7_AvgCycleTime ==
  (pc = "done" /\ ReportWritten) =>
    \A r \in 1..Len(team_stats) :
      LET row == team_stats[r]
          mine == PrsOfTeam(row.team)
      IN  /\ IsRounded(row.avg_cycle_time_days,
                       100 * TotalHours(mine), 24 * Cardinality(mine))
          /\ \A i \in mine :
               ~Present(prs[i].merged_at) => metrics_data[i].time_to_merge_hours = 0
          /\ (row.team = "core" /\ ScenarioCore(mine)) =>
               /\ row.total_prs = 2
               /\ row.merged_prs = 1
               /\ row.total_additions = 10
               /\ row.total_deletions = 2
               /\ row.merge_rate.num = 50 * row.merge_rate.den
               /\ row.avg_cycle_time_days = 100

C7_Witness ==
  /\ pc = "done"
  /\ ReportWritten
  /\ \E r \in 1..Len(team_stats) :
       /\ team_stats[r].team = "core"
       /\ ScenarioCore(PrsOfTeam("core"))
       /\ team_stats[r].avg_cycle_time_days = 100
  /\ \E r \in 1..Len(team_stats) :
       /\ team_stats[r].team = "Unassigned"
       /\ team_stats[r].total_prs = 1
       /\ team_stats[r].avg_cycle_time_days = 12

ListRequests == SelectSeq(requests, LAMBDA q : q.kind = "list")
DetailRequests == SelectSeq(requests, LAMBDA q : q.kind = "detail")

ListRequestsUpTo(k) == [p \in 1..k |-> [kind |-> "list", arg |-> p]]

\* What one step does to the accumulated list: inside the pagination loop a
\* request for the current page is made, and either it fails (the list is
\* left as it is and the loop is over), or its items are appended and the
\* next page, if any, is the following one; outside the loop the list is
\* final and no page is requested.
ListStep ==
  IF pc = "list"
  THEN /\ requests' = Append(requests, [kind |-> "list", arg |-> page])
       /\ \/ /\ failed_page' = page
             /\ all_data' = all_data
             /\ pc' = "filter"
          \/ /\ failed_page' = 0
             /\ all_data' = all_data \o data'
             /\ \/ pc' = "filter" /\ page' = page
                \/ pc' = "list" /\ page' = page + 1 /\ data' # <<>>
  ELSE /\ all_data' = all_data
       /\ failed_page' = failed_page
       /\ page' = page
       /\ ListRequests' = ListRequests

\* C8: when the request for page k fails the loop ends at once: pages 1..k
\* were each requested exactly once and no other page ever is, the result is
\* what pages 1..k-1 appended, page by page in the order served, and the run goes
\* on to filter that list (the failure is not raised).
C8_ListStopsAtFailedPage ==
  /\ [](failed_page > 0 =>
          /\ pc # "list"
          /\ page = failed_page
          /\ ListRequests = ListRequestsUpTo(failed_page)
          /\ pc = "filter" => ENABLED FilterWindow)
  /\ [][ListStep]_vars

C8_Witness ==
  /\ failed_page = 3
  /\ pc = "done"
  /\ Len(all_data) = 3
  /\ all_data[1].number # all_data[2].number
  /\ ReportWritten

\* C9: a failed detail request does not end the run; each in-window item gets
\* exactly one detail request and one record; the record of an item whose
\* request failed has lines_added = lines_deleted = 0 and the team, merged
\* flag and time_to_merge_hours it would have had; every other record carries
\* the additions and deletions of its detail.
C9_DetailFailureZeroesLines ==
  /\ (pc = "extract" /\ detail_failed # {} /\ Len(metrics_data) = Len(prs))
       => ENABLED WriteReport
  /\ pc = "done" =>
       /\ Len(metrics_data) = Len(prs)
       /\ detail_failed # {} => ReportWritten
       /\ DetailRequests =
            [i \in 1..Len(prs) |-> [kind |-> "detail", arg |-> prs[i].number]]
       /\ \A i \in 1..Len(metrics_data) :
            LET rec == metrics_data[i]
            IN  /\ rec.pr_id = prs[i].number
                /\ rec.team = ResolvedTeam(prs[i].login)
                /\ rec.merged = Present(prs[i].merged_at)
                /\ rec.time_to_merge_hours = HoursOf(prs[i])
                /\ rec.lines_added =
                     IF i \in detail_failed THEN 0 ELSE Additions(prs[i].number)
                /\ rec.lines_deleted =
                     IF i \in detail_failed THEN 0 ELSE Deletions(prs[i].number)

C9_Witness ==
  /\ pc = "done"
  /\ ReportWritten
  /\ detail_failed = {2}
  /\ Len(metrics_data) = 3
  /\ metrics_data[2].pr_id = 1
  /\ metrics_data[2].merged
  /\ metrics_data[2].time_to_merge_hours = 48
  /\ metrics_data[2].lines_added = 0
  /\ metrics_data[3].lines_added > 0

\* C10: no two metric records of a run carry the same pull-request number.
C10_PrIdUnique ==
  \A i, j \in 1..Len(metrics_data) :
    metrics_data[i].pr_id = metrics_data[j].pr_id => i = j
====
